---- MODULE Spec2Model ----
(***************************************************************************)
(* Model of the TestFlight monitor: the page classifier, the availability *)
(* cache and the per-item check of src/monitor.py, and the cooldown-gated *)
(* notifier of src/notifications.py.                                      *)
(*                                                                         *)
(* Time is the wall clock read by datetime.now(), counted in whole units;  *)
(* the cache TTL and the notification cooldown are given in the same unit. *)
(* Python dictionaries are functions whose DOMAIN is the set of keys.      *)
(* monitor.py line 52 is read as the first statement of the body of        *)
(* _check_single_app (it is indented one level short in the source).       *)
(***************************************************************************)
EXTENDS Integers, Sequences, FiniteSets, TLC

\* ------------------------------------------------------------------ bounds
\* Last value of the wall clock that the model explores.
MaxTime == 2
\* Largest configured cache TTL (config.cache_ttl_minutes), smallest is 1.
MaxTTL == 2
\* Largest configured cooldown (TFM_NOTIFY_COOLDOWN), smallest is 1.
MaxCooldown == 2
\* Pages given to the classifier are built from at most MaxFrags fragments.
MaxFrags == 2

\* Longest configured item list of PassSpec.
MaxItems == 2

\* Most cycles the scheduler loop starts.
MaxCycles == 10

\* Most monitor threads the desktop application starts.
MaxThreads == 2

\* Largest search_interval, in seconds.
MaxInterval == 2

\* ------------------------------------------------------------ classifier
\* Strings are sequences of characters.
UpperChars ==
    <<"A","B","C","D","E","F","G","H","I","J","K","L","M",
      "N","O","P","Q","R","S","T","U","V","W","X","Y","Z">>

LowerChars ==
    <<"a","b","c","d","e","f","g","h","i","j","k","l","m",
      "n","o","p","q","r","s","t","u","v","w","x","y","z">>

\* str.lower() on one character.
LowerChar(c) ==
    IF \E i \in 1..Len(UpperChars) : UpperChars[i] = c
    THEN LowerChars[CHOOSE i \in 1..Len(UpperChars) : UpperChars[i] = c]
    ELSE c

\* str.upper() on one character (used to build case variants of a page).
UpperChar(c) ==
    IF \E i \in 1..Len(LowerChars) : LowerChars[i] = c
    THEN UpperChars[CHOOSE i \in 1..Len(LowerChars) : LowerChars[i] = c]
    ELSE c

\* html.lower()
Lower(s) == [i \in 1..Len(s) |-> LowerChar(s[i])]

Upper(s) == [i \in 1..Len(s) |-> UpperChar(s[i])]

\* Python's  m in s  on strings: m occurs in s as a contiguous substring.
Contains(s, m) ==
    \E i \in 0..(Len(s) - Len(m)) : \A j \in 1..Len(m) : s[i + j] = m[j]

positive_markers ==
    << <<"j","o","i","n"," ","t","h","e"," ","b","e","t","a">>,
       <<"a","c","c","e","p","t","i","n","g"," ","t","e","s","t","e","r","s">>,
       <<"b","e","t","a"," ","s","i","g","n","u","p">>,
       <<"o","p","e","n"," ","b","e","t","a">> >>

negative_markers ==
    << <<"b","e","t","a"," ","i","s"," ","f","u","l","l">>,
       <<"c","u","r","r","e","n","t","l","y"," ","f","u","l","l">>,
       <<"t","h","i","s"," ","b","e","t","a"," ","i","s"," ","f","u","l","l">>,
       <<"n","o"," ","l","o","n","g","e","r"," ","a","c","c","e","p","t","i","n","g"," ","n","e","w"," ","t","e","s","t","e","r","s">>,
       <<"t","h","i","s"," ","b","e","t","a"," ","i","s","n","'","t"," ","a","c","c","e","p","t","i","n","g">>,
       <<"b","e","t","a"," ","h","a","s"," ","e","n","d","e","d">>,
       <<"n","o","t"," ","a","v","a","i","l","a","b","l","e">>,
       <<"u","n","a","v","a","i","l","a","b","l","e">> >>

\* any(m in lowered for m in markers)
AnyIn(markers, lowered) ==
    \E k \in 1..Len(markers) : Contains(lowered, markers[k])

\* The classifier without the lower() call: a case-sensitive search.
interpret_page_case_sensitive(html) ==
    IF AnyIn(negative_markers, html) THEN FALSE
    ELSE IF AnyIn(positive_markers, html) THEN TRUE
    ELSE FALSE

\* The classifier with the two tests in the other order.
interpret_page_positive_first(html) ==
    LET lowered == Lower(html) IN
    IF AnyIn(positive_markers, lowered) THEN TRUE
    ELSE IF AnyIn(negative_markers, lowered) THEN FALSE
    ELSE FALSE

\* TestFlightMonitor._interpret_page / interpret_page
interpret_page(html) ==
    LET lowered == Lower(html) IN
    IF AnyIn(negative_markers, lowered) THEN FALSE
    ELSE IF AnyIn(positive_markers, lowered) THEN TRUE
    ELSE FALSE

\* ---------------------------------------------------------- configuration
\* config.app_ids, as validated by Config._validate (stripped, length >= 4).
AppIds == <<"FAKE", "FAKECODE">>

Apps == {AppIds[i] : i \in 1..Len(AppIds)}

\* A webhook URL of the form the Discord branch accepts.
DiscordUrl == "https://discord.com/api/webhooks/1/token"

\* A URL Apprise can parse (Slack).
SlackUrl == "slack://TokenA/TokenB/TokenC"

\* A URL that is set but that neither branch can use.
OtherUrl == "https://example.invalid/hook"

\* config.notifications: the configurations the model starts from (nothing
\* set; values set that no branch can use; every service set).
NotificationConfigs ==
    { [discord_webhook_url |-> "", slack_webhook_url |-> "",
       email_smtp_server |-> "", pushover_user_key |-> "",
       pushover_api_token |-> ""],
      [discord_webhook_url |-> OtherUrl, slack_webhook_url |-> OtherUrl,
       email_smtp_server |-> "", pushover_user_key |-> "user",
       pushover_api_token |-> ""],
      [discord_webhook_url |-> DiscordUrl, slack_webhook_url |-> SlackUrl,
       email_smtp_server |-> "smtp.example.org", pushover_user_key |-> "user",
       pushover_api_token |-> "token"] }

\* apprise_obj.add(url): whether Apprise accepts the URL.
AppriseAdd(url) == url # OtherUrl

\* NotificationManager._setup_notifications: the services added to apprise_obj.
SetupNotifications(n) ==
    (IF n.discord_webhook_url # "" /\ n.discord_webhook_url = DiscordUrl
        /\ AppriseAdd("discord://1/token")
     THEN {"discord"} ELSE {})
    \cup
    (IF n.slack_webhook_url # "" /\ AppriseAdd(n.slack_webhook_url)
     THEN {"slack"} ELSE {})
    \cup
    (IF n.email_smtp_server # "" /\ AppriseAdd("mailto://")
     THEN {"email"} ELSE {})
    \cup
    (IF n.pushover_user_key # "" /\ n.pushover_api_token # ""
        /\ AppriseAdd("pushover://")
     THEN {"pushover"} ELSE {})

\* ------------------------------------------------------------------ state
VARIABLES
    now,                \* datetime.now(): the wall clock
    cache_ttl,          \* TestFlightMonitor._cache_ttl
    cooldown,           \* NotificationManager.cooldown
    apprise_obj,        \* NotificationManager.apprise_obj: the services added
    session,            \* TestFlightMonitor._session is not None
    cache,              \* TestFlightMonitor._cache
    last_notification,  \* NotificationManager.last_notification
    pc,                 \* "idle", "check" (between items), "fetch" (awaiting)
    idx,                \* position of check_multiple_apps in app_ids
    checkNow,           \* local  now  of the _check_single_app in progress
    results,            \* local  results  of check_multiple_apps
    raised,             \* where an exception left the last cycle: "none" if none
    lastCheck,          \* what the latest step did in _check_single_app, if anything
    lastCall,           \* the send_notification call of the latest step, if any
    lastFetchAt,        \* history: per item, when _fetch_availability last began
    lastDispatchAt,     \* history: per item, when apprise_obj.notify last ran
    content,            \* the page given to the classifier (ClassifySpec)
    classified,         \* <<its result>>, <<>> before the call (ClassifySpec)
    app_ids,            \* Config.app_ids, the list run_cycle passes on
    inflight            \* the items whose _fetch_availability is awaited

\* The scheduler loop that drives run_cycle (CLIApplication._monitor_loop).
VARIABLES
    sched_state,        \* "IDLE", "RUNNING", "SLEEPING", "STOPPED"
    sched_wait,         \* the wait in progress: "none", "interval", "backoff"
    backoff,            \* current backoff duration, in seconds
    cycle,              \* cycle counter
    failures,           \* consecutive-failure count
    stop_requested,     \* the stop signal (request_stop)
    attempts,           \* history: the outcome of every cycle invocation
    waits,              \* history: the duration of every backoff wait begun
    slept               \* history: number of interval sleeps begun

schedVars ==
    << sched_state, sched_wait, backoff, cycle, failures, stop_requested,
       attempts, waits, slept >>

\* The desktop application (main.py): its monitor threads and the handlers
\* of the main thread.
VARIABLES
    monitoring,         \* the threading.Event  monitoring  is set
    monitor_thread,     \* the global monitor_thread: a thread id, 0 for None
    threads,            \* the monitor() threads created so far
    gui_main,           \* where the main thread is
    apprise_url,        \* the global apprise_url
    search_interval,    \* the global search_interval, in seconds
    testflight_links,   \* the global list testflight_links
    final_sent          \* calls of send_final_status made by the shutdown
                        \* handler (stop_monitoring, on_closing) that is
                        \* running or ran last

guiVars ==
    << monitoring, monitor_thread, threads, gui_main, apprise_url,
       search_interval, testflight_links, final_sent >>

\* Construction of the configuration: Config(...) and TestFlightMonitor(config).
VARIABLES
    config_args,        \* what Config.__post_init__ is given: the constructor's
                        \* arguments, the environment and config.json
    config_ids,         \* the app_ids that reached Config._validate
    config,             \* the Config object: <<>> while there is none
    config_error,       \* "pending", "none", or the ValueError raised
    config_warnings,    \* the warnings Config._validate has logged
    monitor_made        \* TestFlightMonitor(config) has been constructed

cfgVars ==
    << config_args, config_ids, config, config_error, config_warnings,
       monitor_made >>

\* Concurrent calls of send_notification.
VARIABLES
    tasks               \* the tasks created for send_notification calls

taskVars == << tasks >>

NoTasks == tasks = <<>>

\* The construction is over: a monitor exists.
ConfigOver ==
    /\ config_args = <<>>
    /\ config_ids = <<>>
    /\ config = <<>>
    /\ config_error = "none"
    /\ config_warnings = {}
    /\ monitor_made = TRUE

vars ==
    << now, cache_ttl, cooldown, apprise_obj, session, cache,
       last_notification, pc, idx, checkNow, results, raised, lastCheck,
       lastCall, lastFetchAt, lastDispatchAt, content, classified, app_ids,
       inflight, schedVars, guiVars, cfgVars, taskVars >>

\* The empty dictionary.
EmptyDict == [k \in {} |-> 0]

\* An item assignment that leaves the one key in the dictionary.
PutAlone(d, k, v) == [x \in {k} |-> v]

\* d[k] = v on a dictionary.
Put(d, k, v) == [x \in (DOMAIN d) \cup {k} |-> IF x = k THEN v ELSE d[x]]

\* ------------------------------------------------------------------ fetch
\* The pages a fetch can return (those of test_interpret_page_heuristics,
\* and one with a positive and a negative marker).
FetchPages ==
    << <<"J","o","i","n"," ","t","h","e"," ","b","e","t","a"," ","n","o","w">>,
       <<"T","h","i","s"," ","b","e","t","a"," ","i","s"," ","f","u","l","l">>,
       <<"W","e","l","c","o","m","e"," ","t","e","s","t","e","r">>,
       <<"O","p","e","n"," ","b","e","t","a",":"," ","u","n","a","v","a","i","l","a","b","l","e">> >>

\* self._interpret_page(text) for each page a fetch can return.
PageVerdict ==
    << interpret_page(FetchPages[1]), interpret_page(FetchPages[2]),
       interpret_page(FetchPages[3]), interpret_page(FetchPages[4]) >>

\* What the awaited session.get / resp.text() can do: raise, time out, answer
\* with a status other than 200, or answer 200 with page number  page.
FailureKinds == {"nosession", "exception", "timeout", "status"}

FetchOutcomes ==
    IF ~session
    THEN { [kind |-> "nosession", page |-> 0] }
    ELSE { [kind |-> k, page |-> 0] : k \in {"exception", "timeout", "status"} }
         \cup { [kind |-> "ok", page |-> i] : i \in 1..Len(FetchPages) }

\* _fetch_availability with the exception handler removed.
FetchAvailabilityNoHandler(o) ==
    CASE o.kind = "status" -> [raised |-> FALSE, available |-> FALSE]
      [] o.kind = "ok" -> [raised |-> FALSE, available |-> PageVerdict[o.page]]
      [] OTHER -> [raised |-> TRUE, available |-> FALSE]

\* TestFlightMonitor._fetch_availability
FetchAvailability(o) ==
    CASE o.kind = "nosession" -> [raised |-> FALSE, available |-> FALSE]
      [] o.kind = "status" -> [raised |-> FALSE, available |-> FALSE]
      [] o.kind = "ok" -> [raised |-> FALSE, available |-> PageVerdict[o.page]]
      [] o.kind \in {"exception", "timeout"} ->
            [raised |-> FALSE, available |-> FALSE]

\* ----------------------------------------------------------------- notify
\* What apprise_obj.notify can do: return True, return False, or raise.
DispatchOutcomes ==
    IF apprise_obj = {}
    THEN {"failure"}
    ELSE {"success", "failure", "AppriseException", "Exception"}

\* The handlers of send_notification without the  except Exception  fallback.
EscapesNoFallback(d) ==
    CASE d = "AppriseException" -> FALSE
      [] d = "Exception" -> TRUE
      [] OTHER -> FALSE

\* Whether the handlers of send_notification (lines 117-123) let the outcome
\* of apprise_obj.notify leave the call as an exception.
Escapes(d) ==
    CASE d = "AppriseException" -> FALSE
      [] d = "Exception" -> FALSE
      [] OTHER -> FALSE

\* The rate-limit test with  <=  for  < .
RateLimitedInclusive(app_id) ==
    /\ app_id # ""
    /\ app_id \in DOMAIN last_notification
    /\ now - last_notification[app_id] <= cooldown

\* The rate-limit test of send_notification (lines 94-97).
RateLimited(app_id) ==
    /\ app_id # ""
    /\ app_id \in DOMAIN last_notification
    /\ now - last_notification[app_id] < cooldown

\* send_notification writing the cooldown record before the rate-limit test
\* returns.
SendNotificationStampFirst(app_id, d) ==
    IF RateLimited(app_id)
    THEN [last_notification |-> Put(last_notification, app_id, now),
          stamped |-> TRUE, invoked |-> FALSE, contacted |-> {},
          raised |-> FALSE]
    ELSE [last_notification |->
              IF app_id # "" THEN Put(last_notification, app_id, now)
              ELSE last_notification,
          stamped |-> app_id # "", invoked |-> TRUE,
          contacted |-> apprise_obj, raised |-> Escapes(d)]

\* send_notification writing the cooldown record only after apprise_obj.notify
\* returned True.
SendNotificationStampOnSuccess(app_id, d) ==
    IF RateLimited(app_id)
    THEN [last_notification |-> last_notification, stamped |-> FALSE,
          invoked |-> FALSE, contacted |-> {}, raised |-> FALSE]
    ELSE [last_notification |->
              IF app_id # "" /\ d = "success"
              THEN Put(last_notification, app_id, now)
              ELSE last_notification,
          stamped |-> (app_id # "" /\ d = "success"), invoked |-> TRUE,
          contacted |-> apprise_obj, raised |-> Escapes(d)]

\* send_notification keeping one record for all items: the map is replaced
\* by one that holds only the item notified.
SendNotificationOneRecord(app_id, d) ==
    IF RateLimited(app_id)
    THEN [last_notification |-> last_notification, stamped |-> FALSE,
          invoked |-> FALSE, contacted |-> {}, raised |-> FALSE]
    ELSE [last_notification |->
              IF app_id # "" THEN [x \in {app_id} |-> now]
              ELSE last_notification,
          stamped |-> app_id # "", invoked |-> TRUE,
          contacted |-> apprise_obj, raised |-> Escapes(d)]

\* send_notification taking the record back when the dispatch did not
\* succeed.
SendNotificationDropOnFailure(app_id, d) ==
    IF RateLimited(app_id)
    THEN [last_notification |-> last_notification, stamped |-> FALSE,
          invoked |-> FALSE, contacted |-> {}, raised |-> FALSE]
    ELSE [last_notification |->
              IF app_id = "" THEN last_notification
              ELSE IF d = "success" THEN Put(last_notification, app_id, now)
              ELSE [x \in (DOMAIN last_notification) \ {app_id} |->
                       last_notification[x]],
          stamped |-> app_id # "" /\ d = "success", invoked |-> TRUE,
          contacted |-> apprise_obj, raised |-> Escapes(d)]

\* The outcomes to consider for a send_notification(app_id) call: none when
\* the call is rate limited and apprise_obj.notify is not reached.
CallOutcomes(app_id) ==
    IF RateLimited(app_id) THEN {"none"} ELSE DispatchOutcomes

\* NotificationManager.send_notification(app_id), its dispatch (if made)
\* ending with outcome d: the new cooldown map, whether line 100 wrote the
\* item's record, whether apprise_obj.notify was invoked, the services it
\* contacted, and whether an exception leaves the call.
SendNotification(app_id, d) ==
    IF RateLimited(app_id)
    THEN [last_notification |-> last_notification, stamped |-> FALSE,
          invoked |-> FALSE, contacted |-> {}, raised |-> FALSE]
    ELSE [last_notification |->
              IF app_id # "" THEN Put(last_notification, app_id, now)
              ELSE last_notification,
          stamped |-> app_id # "", invoked |-> TRUE,
          contacted |-> apprise_obj, raised |-> Escapes(d)]

\* ---------------------------------------------------------------- actions
NoCheck == [phase |-> "none"]

NoCall == [phase |-> "none"]

\* dict.get(k): <<v>> if k is a key, <<>> (None) otherwise.
Get(d, k) == IF k \in DOMAIN d THEN <<d[k]>> ELSE <<>>

\* lastCall for a send_notification(app_id) call whose dispatch, if made,
\* ended with outcome d, and whose effect is s.
CallRecord(app_id, d, s) ==
    [phase |-> "returned", app_id |-> app_id, at |-> now,
     outcome |-> d,
     invoked |-> s.invoked, stamped |-> s.stamped,
     contacted |-> s.contacted, raised |-> s.raised,
     before |-> last_notification,
     prevDispatch |-> Get(lastDispatchAt, app_id)]

\* The history of one send_notification call.
RecordCall(app_id, d, s) ==
    /\ lastCall' = CallRecord(app_id, d, s)
    /\ lastDispatchAt' =
          IF s.invoked /\ app_id # ""
          THEN Put(lastDispatchAt, app_id, now)
          ELSE lastDispatchAt

\* The loop of check_multiple_apps stepping over every other item.
AdvanceSkipping ==
    IF idx >= Len(app_ids) - 1
    THEN pc' = "idle" /\ idx' = 0
    ELSE pc' = "check" /\ idx' = idx + 2

\* check_multiple_apps: the loop moves to the next item, or returns.
Advance ==
    IF idx = Len(app_ids)
    THEN pc' = "idle" /\ idx' = 0
    ELSE pc' = "check" /\ idx' = idx + 1

\* The cache test with the comparison reversed.
CacheValidReversed(app_id) ==
    /\ app_id \in DOMAIN cache
    /\ now - cache[app_id].timestamp > cache_ttl

\* The cache test with  <=  for  < .
CacheValidInclusive(app_id) ==
    /\ app_id \in DOMAIN cache
    /\ now - cache[app_id].timestamp <= cache_ttl

\* The cache test serving only the entries whose verdict is true.
CacheValidOnlyTrue(app_id) ==
    /\ app_id \in DOMAIN cache
    /\ cache[app_id].data.available
    /\ now - cache[app_id].timestamp < cache_ttl

\* The cache test of _check_single_app (lines 54-55).
CacheValid(app_id) ==
    /\ app_id \in DOMAIN cache
    /\ now - cache[app_id].timestamp < cache_ttl

\* Backoff of the scheduler loop: its base value, its maximum and its growth
\* factor 1.8 as a fraction, in seconds.
BackoffBase == 5

BackoffMax == 300

GrowthNum == 18

GrowthDen == 10

\* The scheduler before it is started.
SchedInit ==
    /\ sched_state = "IDLE"
    /\ sched_wait = "none"
    /\ backoff = BackoffBase
    /\ cycle = 0
    /\ failures = 0
    /\ stop_requested = FALSE
    /\ attempts = <<>>
    /\ waits = <<>>
    /\ slept = 0

\* The globals of main.py at start-up (lines 31-42), once load_data has read
\* apprise_url and search_interval.
\* The global testflight_links, as load_data has read it.
InitialLinks == <<"abcd1234", "wxyz5678">>

\* The codes the user may type in the dialogs of add_link and remove_link.
LinkCodes == {"abcd1234", "wxyz5678"}

GuiInitWith(url, interval) ==
    /\ monitoring = FALSE
    /\ monitor_thread = 0
    /\ threads = <<>>
    /\ gui_main = "mainloop"
    /\ apprise_url = url
    /\ search_interval = interval
    /\ testflight_links = InitialLinks
    /\ final_sent = 0

Init ==
    /\ now = 0
    /\ cache_ttl \in 1..MaxTTL
    /\ cooldown \in 1..MaxCooldown
    /\ apprise_obj \in {SetupNotifications(n) : n \in NotificationConfigs}
    /\ session = FALSE
    /\ cache = EmptyDict
    /\ last_notification = EmptyDict
    /\ pc = "idle"
    /\ idx = 0
    /\ checkNow = 0
    /\ results = <<>>
    /\ raised = "none"
    /\ lastCheck = NoCheck
    /\ lastCall = NoCall
    /\ lastFetchAt = EmptyDict
    /\ lastDispatchAt = EmptyDict
    /\ content = <<>>
    /\ classified = <<>>
    /\ app_ids = AppIds
    /\ inflight = <<>>
    /\ SchedInit
    /\ ConfigOver
    /\ NoTasks
    /\ GuiInitWith("", 1)

\* The wall clock advances.
Tick ==
    /\ now < MaxTime
    /\ now' = now + 1
    /\ lastCheck' = NoCheck
    /\ lastCall' = NoCall
    /\ UNCHANGED << cache_ttl, cooldown, apprise_obj, session, cache,
                    last_notification, pc, idx, checkNow, results, raised,
                    lastFetchAt, lastDispatchAt, content, classified, app_ids,
                    inflight, schedVars, guiVars, cfgVars, taskVars >>

\* TestFlightMonitor.__aenter__
AEnter ==
    /\ pc = "idle"
    /\ ~session
    /\ session' = TRUE
    /\ lastCheck' = NoCheck
    /\ lastCall' = NoCall
    /\ UNCHANGED << now, cache_ttl, cooldown, apprise_obj, cache,
                    last_notification, pc, idx, checkNow, results, raised,
                    lastFetchAt, lastDispatchAt, content, classified, app_ids,
                    inflight, schedVars, guiVars, cfgVars, taskVars >>

\* TestFlightMonitor.__aexit__
AExit ==
    /\ pc = "idle"
    /\ session
    /\ session' = FALSE
    /\ lastCheck' = NoCheck
    /\ lastCall' = NoCall
    /\ UNCHANGED << now, cache_ttl, cooldown, apprise_obj, cache,
                    last_notification, pc, idx, checkNow, results, raised,
                    lastFetchAt, lastDispatchAt, content, classified, app_ids,
                    inflight, schedVars, guiVars, cfgVars, taskVars >>

\* TestFlightMonitor.run_cycle: check_multiple_apps(config.app_ids) begins.
RunCycle ==
    /\ pc = "idle"
    /\ pc' = "check"
    /\ idx' = 1
    /\ results' = <<>>
    /\ raised' = "none"
    /\ lastCheck' = NoCheck
    /\ lastCall' = NoCall
    /\ UNCHANGED << now, cache_ttl, cooldown, apprise_obj, session, cache,
                    last_notification, checkNow, lastFetchAt, lastDispatchAt,
                    content, classified, app_ids, inflight, schedVars,
                    guiVars, cfgVars, taskVars >>

\* _check_single_app, lines 52-56: the entry is valid and its data is returned.
CheckCached ==
    /\ pc = "check"
    /\ LET app_id == app_ids[idx] IN
        /\ CacheValid(app_id)
        /\ results' = Append(results, cache[app_id].data)
        /\ lastCheck' =
              [phase |-> "returned", app_id |-> app_id, at |-> now,
               prior |-> Get(cache, app_id), fetched |-> FALSE,
               kind |-> "none", data |-> cache[app_id].data,
               notified |-> FALSE]
    /\ lastCall' = NoCall
    /\ Advance
    /\ UNCHANGED << now, cache_ttl, cooldown, apprise_obj, session, cache,
                    last_notification, checkNow, raised, lastFetchAt,
                    lastDispatchAt, content, classified, app_ids,
                    inflight, schedVars, guiVars, cfgVars, taskVars >>

\* check_multiple_apps going on to the next item without awaiting the check
\* it has started.
AwaitFetchNotAwaited ==
    IF idx = Len(app_ids)
    THEN pc' = "idle" /\ idx' = 0
    ELSE pc' = "check" /\ idx' = idx + 1

\* The awaits of line 47 and line 58: the loop of check_multiple_apps is
\* suspended at its current item until _fetch_availability has returned.
AwaitFetch == pc' = "fetch" /\ idx' = idx

\* _check_single_app, lines 52-58: no valid entry, _fetch_availability is
\* awaited.
CheckFetch ==
    /\ pc = "check"
    /\ LET app_id == app_ids[idx] IN
        /\ ~CacheValid(app_id)
        /\ checkNow' = now
        /\ lastFetchAt' = Put(lastFetchAt, app_id, now)
        /\ lastCheck' =
              [phase |-> "fetching", app_id |-> app_id, at |-> now,
               prior |-> Get(cache, app_id), fetched |-> TRUE,
               prevFetch |-> Get(lastFetchAt, app_id)]
        /\ inflight' = Append(inflight, app_id)
    /\ lastCall' = NoCall
    /\ AwaitFetch
    /\ UNCHANGED << now, cache_ttl, cooldown, apprise_obj, session, cache,
                    last_notification, results, raised, lastDispatchAt,
                    content, classified, app_ids, schedVars, guiVars, cfgVars, taskVars >>

\* The entry _check_single_app builds from the fetched classified (lines 59-63).
CheckData(app_id, available) ==
    [app_id |-> app_id, available |-> available, checked_at |-> checkNow]

\* lastCheck for a check that fetched, with outcome o, and built data.
FetchedRecord(o, data, notified, phase) ==
    [phase |-> phase, app_id |-> app_ids[idx], at |-> checkNow,
     prior |-> Get(cache, app_ids[idx]), fetched |-> TRUE, kind |-> o.kind,
     verdict |-> FetchAvailability(o).available, data |-> data,
     notified |-> notified]

\* Line 66 notifying whatever the verdict is.
ShouldNotifyAlways(available) == TRUE

\* Line 66 never taken: the check returns the verdict without notifying.
ShouldNotifyNever(available) == FALSE

\* Line 66 of _check_single_app:  if available .
ShouldNotify(available) == available

\* _check_single_app, lines 58-72, once the awaited fetch has ended with
\* outcome o. An exception that leaves _fetch_availability leaves the cycle.
\* Otherwise the entry is stored; if the classified is true send_notification is
\* called (its dispatch ending with outcome d) and an exception that leaves it
\* leaves the cycle; otherwise the entry is returned.
FetchReturn(o, d) ==
    /\ pc = "fetch"
    /\ LET app_id == app_ids[idx]
           f == FetchAvailability(o)
           data == CheckData(app_id, f.available)
           s == SendNotification(app_id, d)
       IN
        IF f.raised
        THEN /\ pc' = "idle"
             /\ idx' = 0
             /\ raised' = "fetch"
             /\ lastCheck' = FetchedRecord(o, data, FALSE, "raised")
             /\ lastCall' = NoCall
             /\ UNCHANGED << cache, last_notification, results,
                             lastDispatchAt >>
        ELSE
          /\ cache' = Put(cache, app_id, [timestamp |-> checkNow, data |-> data])
          /\ IF ~ShouldNotify(f.available)
             THEN /\ Advance
                  /\ results' = Append(results, data)
                  /\ lastCheck' = FetchedRecord(o, data, FALSE, "returned")
                  /\ lastCall' = NoCall
                  /\ UNCHANGED << last_notification, raised, lastDispatchAt >>
             ELSE /\ last_notification' = s.last_notification
                  /\ RecordCall(app_id, d, s)
                  /\ IF s.raised
                     THEN /\ pc' = "idle"
                          /\ idx' = 0
                          /\ raised' = "notify"
                          /\ results' = results
                          /\ lastCheck' = FetchedRecord(o, data, TRUE, "raised")
                     ELSE /\ Advance
                          /\ raised' = raised
                          /\ results' = Append(results, data)
                          /\ lastCheck' = FetchedRecord(o, data, TRUE, "returned")
    /\ inflight' = Tail(inflight)
    /\ UNCHANGED << now, cache_ttl, cooldown, apprise_obj, session, checkNow,
                    lastFetchAt, content, classified, app_ids, schedVars,
                    guiVars, cfgVars, taskVars >>

\* send_notification called directly (a caller other than the cycle), with
\* or without an app_id.
NotifyCall(app_id, d) ==
    /\ pc = "idle"
    /\ LET s == SendNotification(app_id, d) IN
        /\ last_notification' = s.last_notification
        /\ RecordCall(app_id, d, s)
    /\ lastCheck' = NoCheck
    /\ UNCHANGED << now, cache_ttl, cooldown, apprise_obj, session, cache,
                    pc, idx, checkNow, results, raised, lastFetchAt, content,
                    classified, app_ids, inflight, schedVars, guiVars, cfgVars, taskVars >>

Next ==
    \/ Tick
    \/ AEnter
    \/ AExit
    \/ RunCycle
    \/ CheckCached
    \/ CheckFetch
    \/ \E o \in FetchOutcomes :
          \E d \in (IF pc = "fetch" /\ ShouldNotify(FetchAvailability(o).available)
                    THEN CallOutcomes(app_ids[idx]) ELSE {"none"}) :
             FetchReturn(o, d)
    \/ \E app_id \in Apps \cup {""} :
          \E d \in CallOutcomes(app_id) : NotifyCall(app_id, d)

Spec == Init /\ [][Next]_vars

\* ------------------------------------------- one pass over any item list
\* Config._validate (config.py 128-143) accepts any non-empty list of ids of
\* four characters or more: the same id may occur in it more than once.
PassLists == UNION {[1..n -> Apps] : n \in 1..MaxItems}

PassInit ==
    /\ now = 0
    /\ cache_ttl \in 1..MaxTTL
    /\ cooldown \in 1..MaxCooldown
    /\ apprise_obj \in {SetupNotifications(n) : n \in NotificationConfigs}
    /\ session = FALSE
    /\ cache = EmptyDict
    /\ last_notification = EmptyDict
    /\ pc = "idle"
    /\ idx = 0
    /\ checkNow = 0
    /\ results = <<>>
    /\ raised = "none"
    /\ lastCheck = NoCheck
    /\ lastCall = NoCall
    /\ lastFetchAt = EmptyDict
    /\ lastDispatchAt = EmptyDict
    /\ content = <<>>
    /\ classified = <<>>
    /\ app_ids \in PassLists
    /\ inflight = <<>>
    /\ SchedInit
    /\ ConfigOver
    /\ NoTasks
    /\ GuiInitWith("", 1)

PassNext ==
    \/ Tick
    \/ AEnter
    \/ RunCycle
    \/ CheckCached
    \/ CheckFetch
    \/ \E o \in FetchOutcomes :
          \E d \in (IF pc = "fetch" /\ ShouldNotify(FetchAvailability(o).available)
                    THEN CallOutcomes(app_ids[idx]) ELSE {"none"}) :
             FetchReturn(o, d)

PassSpec == PassInit /\ [][PassNext]_vars

\* ------------------------------------------------- the scheduler loop
\* CLIApplication._monitor_loop is not among the sources (test_monitor.py
\* 89-139 calls it): the loop is modelled from section 4.5 of the design.

\* A monitor that has been constructed and is not used.
MonitorIdle ==
    /\ now = 0
    /\ cache_ttl = 1
    /\ cooldown = 1
    /\ apprise_obj = {}
    /\ session = FALSE
    /\ cache = EmptyDict
    /\ last_notification = EmptyDict
    /\ pc = "idle"
    /\ idx = 0
    /\ checkNow = 0
    /\ results = <<>>
    /\ raised = "none"
    /\ lastCheck = NoCheck
    /\ lastCall = NoCall
    /\ lastFetchAt = EmptyDict
    /\ lastDispatchAt = EmptyDict
    /\ content = <<>>
    /\ classified = <<>>
    /\ app_ids = AppIds
    /\ inflight = <<>>

\* The backoff growing without a maximum.
NextBackoffUncapped(b) == (b * GrowthNum) \div GrowthDen

\* The backoff not growing.
NextBackoffFlat(b) == b

\* "multiply backoff by a growth factor (~1.8x) capped at a maximum".
NextBackoff(b) ==
    IF (b * GrowthNum) \div GrowthDen > BackoffMax
    THEN BackoffMax
    ELSE (b * GrowthNum) \div GrowthDen

\* Start: IDLE -> RUNNING, cycle 1 runs immediately.
SchedStart ==
    /\ sched_state = "IDLE"
    /\ IF stop_requested
       THEN sched_state' = "STOPPED" /\ cycle' = cycle
       ELSE sched_state' = "RUNNING" /\ cycle' = 1
    /\ UNCHANGED << sched_wait, backoff, failures, stop_requested, attempts,
                    waits, slept >>

\* On cycle success: the backoff is reset to its base value and the
\* scheduler sleeps for the rest of the interval, unless the stop signal is
\* set.
CycleSucceeds ==
    /\ sched_state = "RUNNING"
    /\ attempts' = Append(attempts, "ok")
    /\ backoff' = BackoffBase
    /\ failures' = 0
    /\ IF stop_requested
       THEN sched_state' = "STOPPED" /\ sched_wait' = "none" /\ slept' = slept
       ELSE /\ sched_state' = "SLEEPING"
            /\ sched_wait' = "interval"
            /\ slept' = slept + 1
    /\ UNCHANGED << cycle, stop_requested, waits >>

\* On cycle exception: the scheduler waits for the backoff duration, unless
\* the stop signal is set.
CycleFails ==
    /\ sched_state = "RUNNING"
    /\ attempts' = Append(attempts, "fail")
    /\ failures' = failures + 1
    /\ IF stop_requested
       THEN sched_state' = "STOPPED" /\ sched_wait' = "none" /\ waits' = waits
       ELSE /\ sched_state' = "SLEEPING"
            /\ sched_wait' = "backoff"
            /\ waits' = Append(waits, backoff)
    /\ UNCHANGED << backoff, cycle, stop_requested, slept >>

\* A wait runs to its end: the next cycle starts; after a backoff wait the
\* backoff is multiplied first.
WaitEnds ==
    /\ sched_state = "SLEEPING"
    /\ ~stop_requested
    /\ cycle < MaxCycles
    /\ backoff' = IF sched_wait = "backoff" THEN NextBackoff(backoff)
                  ELSE backoff
    /\ sched_state' = "RUNNING"
    /\ sched_wait' = "none"
    /\ cycle' = cycle + 1
    /\ UNCHANGED << failures, stop_requested, attempts, waits, slept >>

\* request_stop: the stop signal is set.
RequestStop ==
    /\ stop_requested' = TRUE
    /\ UNCHANGED << sched_state, sched_wait, backoff, cycle, failures,
                    attempts, waits, slept >>

\* The stop signal interrupts the wait in progress.
WaitInterrupted ==
    /\ sched_state = "SLEEPING"
    /\ stop_requested
    /\ sched_state' = "STOPPED"
    /\ sched_wait' = "none"
    /\ UNCHANGED << backoff, cycle, failures, stop_requested, attempts,
                    waits, slept >>

SchedFrame ==
    UNCHANGED << now, cache_ttl, cooldown, apprise_obj, session, cache,
                 last_notification, pc, idx, checkNow, results, raised,
                 lastCheck, lastCall, lastFetchAt, lastDispatchAt, content,
                 classified, app_ids, inflight, guiVars, cfgVars, taskVars >>

SchedNext ==
    \/ SchedStart /\ SchedFrame
    \/ CycleSucceeds /\ SchedFrame
    \/ CycleFails /\ SchedFrame
    \/ WaitEnds /\ SchedFrame
    \/ RequestStop /\ SchedFrame
    \/ WaitInterrupted /\ SchedFrame

SchedSpecInit ==
    MonitorIdle /\ SchedInit /\ ConfigOver /\ NoTasks /\ GuiInitWith("", 1)

SchedSpec == SchedSpecInit /\ [][SchedNext]_vars

\* ------------------------------------------------- the desktop application
\* main.py: the monitor() threads, and the handlers start_monitoring and
\* stop_monitoring that Tk runs on the main thread. A thread is
\*   [pc, i, remaining, checked, stopSeen, cycledAfterStop, sleptAfterStop]
\* with pc one of "while" (line 170), "for" (lines 171-175, at item i),
\* "count" (lines 177-178), "sleep" (line 181), "returned" (lines 179, 182),
\* "died" (an exception left monitor) and "killed" (the process exited); the
\* last three fields are history.

\* A value of apprise_url.
AppriseUrl == "discord://1/token"

Alive(th) == th.pc \in {"while", "for", "count", "sleep"}

\* threading.Thread(target=monitor, daemon=True).start(), line 169 included.
NewThread ==
    [pc |-> "while", i |-> 0, remaining |-> 0, checked |-> {},
     stopSeen |-> FALSE, cycledAfterStop |-> FALSE, sleptAfterStop |-> FALSE,
     notified |-> <<>>, refetched |-> FALSE, skipped |-> FALSE,
     present |-> {}, examined |-> <<>>, missed |-> FALSE, twice |-> FALSE]

\* The interpreter exits: its daemon threads end with it.
KillAll(ths) ==
    [t \in DOMAIN ths |->
        IF Alive(ths[t]) THEN [ths[t] EXCEPT !.pc = "killed"] ELSE ths[t]]

\* notify and send_final_status: they return at once when apprise_url is
\* empty (lines 100-101, 113-114); otherwise Apprise is called, outside any
\* try statement, and the call returns or raises.
AppriseCallOutcomes ==
    IF apprise_url = "" THEN {"returned"} ELSE {"returned", "raised"}

\* The elements of a list.
Range(q) == {q[a] : a \in DOMAIN q}

\* monitor, line 170:  while monitoring.is_set() . A cycle that begins takes
\* note of the codes in the list (history: the codes that stay in the list
\* for the whole cycle, and the codes the cycle examines).
MonitorWhile(t) ==
    /\ gui_main # "exited"
    /\ threads[t].pc = "while"
    /\ threads' =
          [threads EXCEPT ![t] =
             IF monitoring
             THEN [@ EXCEPT !.pc = "for", !.i = 1,
                            !.cycledAfterStop = @ \/ threads[t].stopSeen,
                            !.present = Range(testflight_links),
                            !.examined = <<>>]
             ELSE [@ EXCEPT !.pc = "returned"]]
    /\ UNCHANGED << monitoring, monitor_thread, gui_main, apprise_url,
                    search_interval,
                    testflight_links, final_sent >>

\* Line 173 with is_open(link) called whether or not the code is in  checked .
IsOpenCalledAlways(th, code) == TRUE

\* Line 173,  code not in checked and is_open(link) : the  and  evaluates
\* is_open, which fetches the page, only for a code that is not in  checked .
IsOpenCalled(th, code) == code \notin th.checked

\* monitor, lines 171-175, one turn of  for code in testflight_links : the
\* list iterator yields the element at its index th.i and moves on by one;
\* is_open(link) answers open (False on any request error, lines 65-70); an
\* open item not yet in  checked  is notified, with outcome n, and added to
\* checked . An exception raised by notify leaves monitor. The thread's
\* history keeps the codes notify was called for, whether a code in
\* checked  was fetched again or passed over, and the codes examined in
\* this cycle.
MonitorCheck(t, open, n) ==
    /\ gui_main # "exited"
    /\ threads[t].pc = "for"
    /\ threads[t].i <= Len(testflight_links)
    /\ LET th0 == threads[t]
           code == testflight_links[th0.i]
           fetches == IsOpenCalled(th0, code)
           notifies == fetches /\ open
           th == [th0 EXCEPT
                    !.notified = IF notifies THEN Append(@, code) ELSE @,
                    !.refetched = @ \/ (fetches /\ code \in th0.checked),
                    !.skipped = @ \/ (~fetches /\ code \in th0.checked),
                    !.examined = Append(@, code)]
       IN
        threads' =
          [threads EXCEPT ![t] =
             IF notifies /\ n = "raised"
             THEN [th EXCEPT !.pc = "died"]
             ELSE [th EXCEPT !.i = @ + 1,
                             !.checked = IF notifies THEN @ \cup {code}
                                                     ELSE @]]
    /\ UNCHANGED << monitoring, monitor_thread, gui_main, apprise_url,
                    search_interval, testflight_links, final_sent >>

\* The number of times x occurs in the sequence q.
Occurrences(q, x) == Cardinality({a \in DOMAIN q : q[a] = x})

\* monitor, line 171 and 177: the list iterator finds its index past the end
\* of the list, the pass is over and the countdown begins. History: whether
\* a code that stayed in the list for the whole cycle was not examined in it,
\* or was examined in it more than once.
MonitorForEnd(t) ==
    /\ gui_main # "exited"
    /\ threads[t].pc = "for"
    /\ threads[t].i > Len(testflight_links)
    /\ threads' =
          [threads EXCEPT ![t] =
             [@ EXCEPT !.pc = "count", !.i = 0,
                       !.remaining = search_interval,
                       !.missed = @ \/ \E c \in threads[t].present :
                                     Occurrences(threads[t].examined, c) = 0,
                       !.twice = @ \/ \E c \in threads[t].present :
                                     Occurrences(threads[t].examined, c) > 1,
                       !.present = {},
                       !.examined = <<>>]]
    /\ UNCHANGED << monitoring, monitor_thread, gui_main, apprise_url,
                    search_interval, testflight_links, final_sent >>

\* monitor, lines 177-180: the countdown is over, or the flag is clear and
\* monitor returns, or the next second of sleep begins.
MonitorCount(t) ==
    /\ gui_main # "exited"
    /\ threads[t].pc = "count"
    /\ threads' =
          [threads EXCEPT ![t] =
             IF @.remaining = 0 THEN [@ EXCEPT !.pc = "while"]
             ELSE IF ~monitoring THEN [@ EXCEPT !.pc = "returned"]
             ELSE [@ EXCEPT !.pc = "sleep",
                            !.sleptAfterStop = @ \/ threads[t].stopSeen]]
    /\ UNCHANGED << monitoring, monitor_thread, gui_main, apprise_url,
                    search_interval,
                    testflight_links, final_sent >>

\* monitor, line 181:  time.sleep(1)  returns.
MonitorSleep(t) ==
    /\ gui_main # "exited"
    /\ threads[t].pc = "sleep"
    /\ threads' = [threads EXCEPT ![t] =
                     [@ EXCEPT !.pc = "count", !.remaining = @ - 1]]
    /\ UNCHANGED << monitoring, monitor_thread, gui_main, apprise_url,
                    search_interval,
                    testflight_links, final_sent >>

\* start_monitoring (lines 239-245).
StartMonitoring ==
    /\ gui_main = "mainloop"
    /\ Len(threads) < MaxThreads
    /\ IF ~monitoring
       THEN /\ monitoring' = TRUE
            /\ threads' = Append(threads, NewThread)
            /\ monitor_thread' = Len(threads) + 1
       ELSE UNCHANGED << monitoring, threads, monitor_thread >>
    /\ UNCHANGED << gui_main, apprise_url, search_interval,
                    testflight_links, final_sent >>

\* stop_monitoring, line 248:  monitoring.clear() ; the handler goes on to
\* the join. History: the threads alive have a stop to see.
ClearFlag ==
    /\ monitoring' = FALSE
    /\ gui_main' = "join"
    /\ threads' = [t \in DOMAIN threads |->
                     IF Alive(threads[t])
                     THEN [threads[t] EXCEPT !.stopSeen = TRUE]
                     ELSE threads[t]]

\* The Stop Monitoring command (line 392): stop_monitoring begins.
StopMonitoring ==
    /\ gui_main = "mainloop"
    /\ ClearFlag
    /\ final_sent' = 0
    /\ UNCHANGED << monitor_thread, apprise_url, search_interval,
                    testflight_links >>

\* stop_monitoring, lines 249-250:  monitor_thread.join(timeout=2)  returns:
\* there is no thread, or the thread has ended, or two seconds have passed.
\* A thread in its countdown polls the flag every second and ends within
\* the two seconds; one in the middle of a pass may not (a request of
\* is_open has a timeout of ten seconds).
StopJoin ==
    /\ gui_main = "join"
    /\ IF monitor_thread = 0 THEN TRUE
       ELSE ~Alive(threads[monitor_thread])
               \/ threads[monitor_thread].pc = "for"
    /\ gui_main' = "final"
    /\ UNCHANGED << monitoring, monitor_thread, threads, apprise_url,
                    search_interval,
                    testflight_links, final_sent >>

\* stop_monitoring, lines 251-253: send_final_status() ends with outcome n.
\* When it returns, root.quit() ends the main loop and the process. When it
\* raises, Tk reports the exception of the callback and the main loop goes
\* on: line 253 is not reached.
StopFinal(n) ==
    /\ gui_main = "final"
    /\ final_sent' = final_sent + 1
    /\ IF n = "raised"
       THEN gui_main' = "mainloop" /\ threads' = threads
       ELSE gui_main' = "exited" /\ threads' = KillAll(threads)
    /\ UNCHANGED << monitoring, monitor_thread, apprise_url, search_interval,
                    testflight_links >>

\* The Exit command (line 383):  root.quit() .
ExitApp ==
    /\ gui_main = "mainloop"
    /\ gui_main' = "exited"
    /\ threads' = KillAll(threads)
    /\ final_sent' = 0
    /\ UNCHANGED << monitoring, monitor_thread, apprise_url, search_interval,
                    testflight_links >>

\* on_closing (lines 489-500), the handler of the window's close button: the
\* dialog answers result; on yes send_final_status() is called and ends with
\* outcome n (when it raises, Tk reports the exception of the callback and
\* the main loop goes on); then, monitoring being set, stop_monitoring() is
\* called (line 495), and otherwise root.quit() (line 500).
OnClosing(result, n) ==
    /\ gui_main = "mainloop"
    /\ final_sent' = IF result THEN 1 ELSE 0
    /\ IF result /\ n = "raised"
       THEN UNCHANGED << monitoring, gui_main, threads >>
       ELSE IF monitoring
            THEN ClearFlag
            ELSE /\ gui_main' = "exited"
                 /\ threads' = KillAll(threads)
                 /\ monitoring' = monitoring
    /\ UNCHANGED << monitor_thread, apprise_url, search_interval,
                    testflight_links >>

\* add_link (lines 255-263): the dialog answers code; a code not in the
\* list is appended to it.
AddLink(code) ==
    /\ gui_main = "mainloop"
    /\ code \notin Range(testflight_links)
    /\ testflight_links' = Append(testflight_links, code)
    /\ UNCHANGED << monitoring, monitor_thread, threads, gui_main,
                    apprise_url, search_interval, final_sent >>

\* list.remove(x): the list without the first element equal to x.
Remove(q, x) ==
    LET k == CHOOSE a \in DOMAIN q :
                 q[a] = x /\ \A b \in 1..(a - 1) : q[b] # x
    IN [a \in 1..(Len(q) - 1) |-> IF a < k THEN q[a] ELSE q[a + 1]]

\* remove_link (lines 265-275): the dialog answers code; a code in the list
\* is removed from it. History: the code is no longer one that stays in the
\* list for the whole of a cycle in progress.
RemoveLink(code) ==
    /\ gui_main = "mainloop"
    /\ code \in Range(testflight_links)
    /\ testflight_links' = Remove(testflight_links, code)
    /\ threads' = [t \in DOMAIN threads |->
                     [threads[t] EXCEPT !.present = @ \ {code}]]
    /\ UNCHANGED << monitoring, monitor_thread, gui_main, apprise_url,
                    search_interval, final_sent >>

GuiFrame ==
    UNCHANGED << now, cache_ttl, cooldown, apprise_obj, session, cache,
                 last_notification, pc, idx, checkNow, results, raised,
                 lastCheck, lastCall, lastFetchAt, lastDispatchAt, content,
                 classified, app_ids, inflight, schedVars, cfgVars, taskVars >>

GuiInit ==
    /\ MonitorIdle
    /\ SchedInit
    /\ ConfigOver
    /\ NoTasks
    /\ \E url \in {"", AppriseUrl} :
          \E interval \in 1..MaxInterval : GuiInitWith(url, interval)

GuiNext ==
    \/ \E t \in DOMAIN threads : MonitorWhile(t) /\ GuiFrame
    \/ \E t \in DOMAIN threads :
          \E open \in BOOLEAN :
             \E n \in (IF open THEN AppriseCallOutcomes ELSE {"returned"}) :
                MonitorCheck(t, open, n) /\ GuiFrame
    \/ \E t \in DOMAIN threads : MonitorForEnd(t) /\ GuiFrame
    \/ \E t \in DOMAIN threads : MonitorCount(t) /\ GuiFrame
    \/ \E t \in DOMAIN threads : MonitorSleep(t) /\ GuiFrame
    \/ StartMonitoring /\ GuiFrame
    \/ StopMonitoring /\ GuiFrame
    \/ StopJoin /\ GuiFrame
    \/ \E n \in AppriseCallOutcomes : StopFinal(n) /\ GuiFrame
    \/ ExitApp /\ GuiFrame
    \/ \E result \in BOOLEAN :
          \E n \in (IF result THEN AppriseCallOutcomes ELSE {"returned"}) :
             OnClosing(result, n) /\ GuiFrame

GuiSpec == GuiInit /\ [][GuiNext]_vars

\* ------------------------------------------------- one monitoring run
\* One run of monitor: Start Monitoring has been chosen once, and the user
\* edits the list of links while the thread runs, until the application is
\* stopped or closed.
RunInit ==
    /\ MonitorIdle
    /\ SchedInit
    /\ ConfigOver
    /\ NoTasks
    /\ monitoring = TRUE
    /\ monitor_thread = 1
    /\ threads = <<NewThread>>
    /\ gui_main = "mainloop"
    /\ apprise_url \in {"", AppriseUrl}
    /\ search_interval \in 1..MaxInterval
    /\ testflight_links = InitialLinks
    /\ final_sent = 0

RunNext ==
    \/ \E t \in DOMAIN threads : MonitorWhile(t) /\ GuiFrame
    \/ \E t \in DOMAIN threads :
          \E open \in BOOLEAN :
             \E n \in (IF open THEN AppriseCallOutcomes ELSE {"returned"}) :
                MonitorCheck(t, open, n) /\ GuiFrame
    \/ \E t \in DOMAIN threads : MonitorForEnd(t) /\ GuiFrame
    \/ \E t \in DOMAIN threads : MonitorCount(t) /\ GuiFrame
    \/ \E t \in DOMAIN threads : MonitorSleep(t) /\ GuiFrame
    \/ \E code \in LinkCodes : AddLink(code) /\ GuiFrame
    \/ \E code \in LinkCodes : RemoveLink(code) /\ GuiFrame
    \/ StopMonitoring /\ GuiFrame
    \/ StopJoin /\ GuiFrame
    \/ \E n \in AppriseCallOutcomes : StopFinal(n) /\ GuiFrame
    \/ ExitApp /\ GuiFrame
    \/ \E result \in BOOLEAN :
          \E n \in (IF result THEN AppriseCallOutcomes ELSE {"returned"}) :
             OnClosing(result, n) /\ GuiFrame

RunSpec == RunInit /\ [][RunNext]_vars

\* ------------------------------------------------- classifier on its own
\* Pieces of page text: the pages of test_interpret_page_heuristics, the
\* markers in other letter cases, and pieces that form a marker only when
\* joined.
Fragments ==
    { <<"J","o","i","n"," ","t","h","e"," ","b","e","t","a"," ","n","o","w">>,
      <<"T","h","i","s"," ","b","e","t","a"," ","i","s"," ","f","u","l","l">>,
      <<"W","e","l","c","o","m","e"," ","t","e","s","t","e","r"," ","p","o","r","t","a","l">>,
      <<"J","O","I","N"," ","T","H","E"," ">>,
      <<"B","E","T","A">>,
      <<" ","i","s"," ","F","U","L","L">>,
      <<"O","p","e","n"," ","B","e","t","a">>,
      <<"A","c","c","e","p","t","i","n","g"," ","T","e","s","t","e","r","s">>,
      <<"b","e","t","a"," ","s","i","g","n","u","p">>,
      <<"C","u","r","r","e","n","t","l","y"," ","F","u","l","l">>,
      <<"N","o"," ","l","o","n","g","e","r"," ","a","c","c","e","p","t","i","n","g"," ","n","e","w"," ","t","e","s","t","e","r","s">>,
      <<"T","h","i","s"," ","b","e","t","a"," ","i","s","n","'","t"," ","a","c","c","e","p","t","i","n","g">>,
      <<"B","e","t","a"," ","h","a","s"," ","e","n","d","e","d">>,
      <<"N","o","t"," ","A","v","a","i","l","a","b","l","e">>,
      <<"U","N","A","V","A","I","L","A","B","L","E">>,
      <<"j","o","i","n"," ","t","h","e"," ","b","e","t">> }

RECURSIVE PagesOf(_)
\* The pages made of exactly n fragments.
PagesOf(n) ==
    IF n = 0 THEN {<<>>}
    ELSE {p \o f : p \in PagesOf(n - 1), f \in Fragments}

\* The pages the classifier is applied to.
Pages == UNION {PagesOf(n) : n \in 0..MaxFrags}

ClassifyInit ==
    /\ content \in Pages
    /\ classified = <<>>
    /\ now = 0
    /\ cache_ttl = 1
    /\ cooldown = 1
    /\ apprise_obj = {}
    /\ session = FALSE
    /\ cache = EmptyDict
    /\ last_notification = EmptyDict
    /\ pc = "idle"
    /\ idx = 0
    /\ checkNow = 0
    /\ results = <<>>
    /\ raised = "none"
    /\ lastCheck = NoCheck
    /\ lastCall = NoCall
    /\ lastFetchAt = EmptyDict
    /\ lastDispatchAt = EmptyDict
    /\ app_ids = AppIds
    /\ inflight = <<>>
    /\ SchedInit
    /\ ConfigOver
    /\ NoTasks
    /\ GuiInitWith("", 1)

\* interpret_page(content) is called.
Classify ==
    /\ classified = <<>>
    /\ classified' = <<interpret_page(content)>>
    /\ UNCHANGED << now, cache_ttl, cooldown, apprise_obj, session, cache,
                    last_notification, pc, idx, checkNow, results, raised,
                    lastCheck, lastCall, lastFetchAt, lastDispatchAt,
                    content, app_ids, inflight, schedVars, guiVars, cfgVars, taskVars >>

ClassifySpec == ClassifyInit /\ [][Classify]_vars

\* ------------------------------------------------------------ properties
\* s contains marker m when letter case is ignored.
ContainsCI(s, m) ==
    \E i \in 0..(Len(s) - Len(m)) :
        \A j \in 1..Len(m) : LowerChar(s[i + j]) = LowerChar(m[j])

\* The number of markers of a list that s contains, letter case ignored.
MarkerCount(markers, s) ==
    Cardinality({k \in 1..Len(markers) : ContainsCI(s, markers[k])})

\* The cycle goes on after the check that has just returned: the result is
\* the last of results, and either the next item is up or the pass is over
\* with one result per item.
CycleGoesOn ==
    /\ Len(results) >= 1
    /\ results[Len(results)] = lastCheck.data
    /\ IF Len(results) < Len(AppIds)
       THEN pc = "check" /\ idx = Len(results) + 1
       ELSE pc = "idle" /\ Len(results) = Len(AppIds)

\* lastCall is a send_notification call for a configured item.
ItemCall == lastCall.phase = "returned" /\ lastCall.app_id \in Apps

\* C1: a send_notification call for an item invokes the dispatcher if and
\* only if the dispatcher was never invoked for that item or was last invoked
\* at least  cooldown  earlier. So no two dispatches for one item are closer
\* than the cooldown; of two calls less than the cooldown apart the second is
\* skipped when the first dispatched (exactly one dispatch); and a call at
\* least the cooldown after the previous call (hence after the previous
\* dispatch) dispatches, to every configured service.
C1_DispatchIffOutsideCooldown ==
    ItemCall =>
        /\ lastCall.invoked <=>
              \/ lastCall.prevDispatch = <<>>
              \/ lastCall.at - lastCall.prevDispatch[1] >= cooldown
        /\ lastCall.invoked => lastCall.contacted = apprise_obj

\* C1 witness: a call for an item less than the cooldown after the item's
\* previous dispatch has been skipped.
C1_Witness ==
    /\ ItemCall
    /\ ~lastCall.invoked
    /\ lastCall.prevDispatch # <<>>
    /\ lastCall.at > lastCall.prevDispatch[1]
    /\ lastCall.at - lastCall.prevDispatch[1] < cooldown

\* lastCheck carries the cache entry the check found.
CheckSawEntry ==
    /\ lastCheck.phase \in {"fetching", "returned", "raised"}
    /\ lastCheck.prior # <<>>

\* C2: a check that finds an entry younger than the TTL does not fetch and
\* returns the stored data unchanged; and a fetch for an item begins only when
\* the item's previous fetch began at least a TTL earlier.
C2_NoFetchWithinTTL ==
    /\ (CheckSawEntry /\ lastCheck.at - lastCheck.prior[1].timestamp < cache_ttl)
          => /\ ~lastCheck.fetched
             /\ lastCheck.data = lastCheck.prior[1].data
    /\ (lastCheck.phase = "fetching" /\ lastCheck.prevFetch # <<>>)
          => lastCheck.at - lastCheck.prevFetch[1] >= cache_ttl

\* C2 witness: a check made later than the fetch, but within the TTL,
\* returned the stored data without fetching.
C2_Witness ==
    /\ lastCheck.phase = "returned"
    /\ ~lastCheck.fetched
    /\ lastCheck.at > lastCheck.prior[1].timestamp
    /\ lastCheck.data = lastCheck.prior[1].data

\* C3: a check that finds an entry of age >= TTL fetches again, and what it
\* returns is the verdict of that fetch, stored in place of the old entry.
C3_RefetchFromTTL ==
    (CheckSawEntry /\ lastCheck.at - lastCheck.prior[1].timestamp >= cache_ttl)
       => /\ lastCheck.fetched
          /\ lastCheck.phase = "returned" =>
                /\ lastCheck.data.available = lastCheck.verdict
                /\ cache[lastCheck.app_id].data = lastCheck.data

\* C3 witness: an entry of age exactly TTL was fetched again and the verdict
\* returned differs from the stored one.
C3_Witness ==
    /\ lastCheck.phase = "returned"
    /\ lastCheck.prior # <<>>
    /\ lastCheck.at - lastCheck.prior[1].timestamp = cache_ttl
    /\ lastCheck.fetched
    /\ lastCheck.data.available # lastCheck.prior[1].data.available

\* send_notification was called for the item of the check that just returned.
NotifyCalledByCheck ==
    /\ lastCall.phase = "returned"
    /\ lastCall.app_id = lastCheck.app_id

\* C4 as claimed: every check that returns a true verdict, fetched or cached,
\* calls send_notification for the item.
C4_NotifyOnEveryTrueVerdict ==
    (lastCheck.phase = "returned" /\ lastCheck.data.available)
       => NotifyCalledByCheck

\* C4 amended: a check calls send_notification for its item if and only if it
\* fetched and the fetched verdict is true; a true verdict served from the
\* cache calls nothing.
C4_NotifyIffFreshTrueVerdict ==
    lastCheck.phase = "returned" =>
        /\ NotifyCalledByCheck <=> (lastCheck.fetched /\ lastCheck.data.available)
        /\ lastCheck.notified <=> NotifyCalledByCheck

\* C4 witness: a check returned a true verdict from the cache and no
\* send_notification call was made.
C4_Witness ==
    /\ lastCheck.phase = "returned"
    /\ ~lastCheck.fetched
    /\ lastCheck.data.available
    /\ lastCall = NoCall

\* C5: content that contains a negative marker is classified false, however
\* many positive markers it contains.
C5_NegativePrecedence ==
    (classified # <<>> /\ MarkerCount(negative_markers, content) >= 1)
       => classified[1] = FALSE

\* C5 witness: content with a negative and a positive marker was classified
\* false.
C5_Witness ==
    /\ classified = <<FALSE>>
    /\ MarkerCount(negative_markers, content) >= 1
    /\ MarkerCount(positive_markers, content) >= 1

\* C6: the result is true exactly when the content contains, letter case
\* ignored, a positive marker and no negative marker; and the content in
\* upper case or in lower case is classified the same.
C6_TrueIffPositiveAndNoNegative ==
    classified # <<>> =>
        /\ classified[1] <=>
              /\ MarkerCount(positive_markers, content) >= 1
              /\ MarkerCount(negative_markers, content) = 0
        /\ interpret_page(Upper(content)) = classified[1]
        /\ interpret_page(Lower(content)) = classified[1]

\* C6 witness: content that has a positive marker only when letter case is
\* ignored was classified true.
C6_Witness ==
    /\ classified = <<TRUE>>
    /\ ~AnyIn(positive_markers, content)

\* lastCheck is a check whose fetch failed.
FetchFailed ==
    /\ lastCheck.phase \in {"returned", "raised"}
    /\ lastCheck.fetched
    /\ lastCheck.kind \in FailureKinds

\* C7: a fetch that fails (no session, exception, timeout, status other than
\* 200) gives a false verdict, no exception leaves the check, and the cycle
\* goes on with the next item.
C7_FetchFailureIsFalse ==
    /\ raised # "fetch"
    /\ FetchFailed =>
          /\ lastCheck.phase = "returned"
          /\ lastCheck.data.available = FALSE
          /\ CycleGoesOn

\* C7 witness: the fetch of the first item timed out, its verdict is false and
\* the second item is up.
C7_Witness ==
    /\ FetchFailed
    /\ lastCheck.kind = "timeout"
    /\ lastCheck.app_id = AppIds[1]
    /\ lastCheck.data.available = FALSE
    /\ pc = "check"
    /\ idx = 2

\* C8: a call skipped by the cooldown contacts no service and leaves the
\* whole cooldown map as it was.
C8_SkipChangesNothing ==
    (ItemCall /\ ~lastCall.invoked) =>
        /\ lastCall.contacted = {}
        /\ ~lastCall.stamped
        /\ last_notification = lastCall.before

\* C8 witness: a call was skipped while both items had a record.
C8_Witness ==
    /\ ItemCall
    /\ ~lastCall.invoked
    /\ DOMAIN lastCall.before = Apps

\* C9 as claimed: a call writes the item's record if and only if it contacted
\* at least one service.
C9_RecordIffServiceContacted ==
    ItemCall => (lastCall.stamped <=> lastCall.contacted # {})

\* C9 amended: a call writes the item's record, with the current time, if and
\* only if it is not skipped by the cooldown test, that is if and only if it
\* invokes the dispatcher, also when no service is configured and none is
\* contacted; whatever the dispatcher does (True, False, an exception), the
\* record stays written.
C9_RecordIffNotSkipped ==
    ItemCall =>
        /\ lastCall.stamped <=> lastCall.invoked
        /\ lastCall.invoked => lastCall.contacted = apprise_obj
        /\ lastCall.stamped =>
              last_notification = Put(lastCall.before, lastCall.app_id, lastCall.at)

\* C9 witness: the dispatcher raised and the record of the item is written.
C9_Witness ==
    /\ ItemCall
    /\ lastCall.outcome \in {"AppriseException", "Exception"}
    /\ lastCall.stamped
    /\ last_notification[lastCall.app_id] = lastCall.at

\* C10: whatever apprise_obj.notify does, no exception leaves
\* send_notification, and a cycle that called it goes on.
C10_NotifierNeverRaises ==
    /\ raised # "notify"
    /\ lastCall.phase = "returned" => ~lastCall.raised
    /\ (lastCheck.phase \in {"returned", "raised"} /\ lastCheck.notified)
          => (lastCheck.phase = "returned" /\ CycleGoesOn)

\* C10 witness: the dispatcher raised in a call made by the check of the
\* first item, the check returned and the second item is up.
C10_Witness ==
    /\ lastCheck.phase = "returned"
    /\ lastCheck.notified
    /\ lastCall.phase = "returned"
    /\ lastCall.outcome = "Exception"
    /\ pc = "check"
    /\ idx = 2

\* C17: within a cycle no two fetches for the same item are in flight at the
\* same time, also when the configured list holds an identifier twice.
C17_NoTwoFetchesOfOneItem ==
    \A i, j \in DOMAIN inflight : i # j => inflight[i] # inflight[j]

\* C17 witness: the list holds one identifier twice and the fetch of its
\* second occurrence is in flight, the first one having been fetched too.
C17_Witness ==
    /\ Len(app_ids) = 2
    /\ app_ids[1] = app_ids[2]
    /\ pc = "fetch"
    /\ idx = 2
    /\ inflight = <<app_ids[2]>>
    /\ Len(results) = 1
    /\ results[1].checked_at < checkNow

\* C18: one cycle is one complete pass: while it runs the items before the
\* current one, and only they, have been checked, in configured order; when
\* it returns there is exactly one result per configured item, in that order,
\* each with the item's id and a boolean verdict.
C18_OnePassOneResultPerItem ==
    /\ pc \in {"check", "fetch"} => Len(results) = idx - 1
    /\ (pc = "idle" /\ lastCheck.phase = "returned") =>
          Len(results) = Len(app_ids)
    /\ \A i \in DOMAIN results :
          /\ i <= Len(app_ids)
          /\ results[i].app_id = app_ids[i]
          /\ results[i].available \in BOOLEAN

\* C18 witness: a pass over a list of two items has returned two results, the
\* first served from the cache and the second fetched.
C18_Witness ==
    /\ pc = "idle"
    /\ Len(app_ids) = 2
    /\ Len(results) = 2
    /\ results[1].checked_at < results[2].checked_at
    /\ lastCheck.phase = "returned"
    /\ lastCheck.fetched

\* C19: a notify call for one item never creates, changes or removes the
\* record of a different item.
C19_OtherRecordsUntouched ==
    lastCall.phase = "returned" =>
       \A k \in ((DOMAIN lastCall.before) \cup (DOMAIN last_notification))
                 \ {lastCall.app_id} :
          Get(last_notification, k) = Get(lastCall.before, k)

\* C19 witness: a call for one item has written that item's record while a
\* different item has a record, written at an earlier time.
C19_Witness ==
    /\ lastCall.phase = "returned"
    /\ lastCall.stamped
    /\ \E k \in (DOMAIN lastCall.before) \ {lastCall.app_id} :
          lastCall.before[k] < now

\* C20: a record that exists is never deleted and its timestamp never
\* decreases: in every step the items with a record keep one, with a
\* timestamp at least as late.
C20_RecordsNeverDeleted ==
    [][\A k \in DOMAIN last_notification :
          /\ k \in DOMAIN last_notification'
          /\ last_notification'[k] >= last_notification[k]]_vars

\* C20 witness: a call whose dispatch failed has updated an existing record
\* to a later time.
C20_Witness ==
    /\ lastCall.phase = "returned"
    /\ lastCall.stamped
    /\ lastCall.outcome # "success"
    /\ lastCall.app_id \in DOMAIN lastCall.before
    /\ last_notification[lastCall.app_id] > lastCall.before[lastCall.app_id]

\* The backoff after k multiplications since it was last reset.
RECURSIVE BackoffAfter(_)

BackoffAfter(k) == IF k = 0 THEN BackoffBase ELSE NextBackoff(BackoffAfter(k - 1))

\* C11: the backoff always lies within [base, max]: it is the base value
\* multiplied once for every failed cycle (whose backoff wait has ended)
\* since the last success, capped at the maximum, and it is the base value
\* after a successful cycle.
C11_BackoffWithinBounds ==
    /\ backoff \in BackoffBase..BackoffMax
    /\ (sched_state \in {"RUNNING", "SLEEPING"}) =>
          backoff = BackoffAfter(IF sched_wait = "backoff" THEN failures - 1
                                 ELSE failures)
    /\ (attempts # <<>> /\ attempts[Len(attempts)] = "ok"
          /\ sched_state # "RUNNING") => backoff = BackoffBase

\* C11 witness: after a run of failures the multiplication would leave the
\* range and the backoff stands at the maximum.
C11_Witness ==
    /\ sched_state = "RUNNING"
    /\ backoff = BackoffMax
    /\ waits # <<>>
    /\ (waits[Len(waits)] * GrowthNum) \div GrowthDen > BackoffMax

\* C12: when the cycle fails on attempts 1 and 2 and succeeds on attempt 3,
\* no interval sleep begins before the third invocation; after it there have
\* been two backoff waits, the second strictly longer than the first, the
\* backoff is back at its base, and when the first interval sleep begins
\* exactly three cycles have been invoked.
C12_FailFailSucceed ==
    /\ attempts \in {<<>>, <<"fail">>, <<"fail", "fail">>} => slept = 0
    /\ attempts = <<"fail", "fail", "ok">> =>
          /\ Len(waits) = 2
          /\ waits[2] > waits[1]
          /\ backoff = BackoffBase
          /\ slept <= 1
          /\ (sched_state = "SLEEPING") =>
                (cycle = 3 /\ slept = 1 /\ sched_wait = "interval")
          /\ (sched_state = "STOPPED" /\ slept = 0) => cycle = 3

\* C12 witness: the third attempt has succeeded after two failures and the
\* first interval sleep is in progress.
C12_Witness ==
    /\ attempts = <<"fail", "fail", "ok">>
    /\ sched_state = "SLEEPING"
    /\ sched_wait = "interval"
    /\ slept = 1

\* C13: once the stop signal is set the scheduler starts no new cycle: no
\* monitor thread that was running when the signal was set begins another
\* pass over the items.
C13_NoCycleAfterStop ==
    \A t \in DOMAIN threads : ~threads[t].cycledAfterStop

\* C14: the stop signal is never missed: a monitor thread that was running
\* when the signal was set begins no further second of sleep, its wait ends
\* instead of running for its remaining duration.
C14_WaitEndsOnStop ==
    \A t \in DOMAIN threads : ~threads[t].sleptAfterStop

\* C15: an error raised inside a cycle never ends the scheduler: a monitor
\* thread stops cycling only after the stop signal was set.
C15_OnlyStopEndsScheduler ==
    \A t \in DOMAIN threads :
       threads[t].pc \in {"returned", "died"} => threads[t].stopSeen

\* C16: cycles never overlap: at most one monitor thread is executing a pass
\* over the items.
C16_AtMostOneDriver ==
    Cardinality({t \in DOMAIN threads : threads[t].pc = "for"}) <= 1

\* The check in progress has fetched and returns in this step.
FetchedCheckReturns == pc = "fetch" /\ lastCheck'.phase = "returned"

\* The other entries of the cache are the same before and after this step.
OtherEntriesKept(app_id) ==
    /\ DOMAIN cache' = (DOMAIN cache) \cup {app_id}
    /\ \A k \in (DOMAIN cache) \ {app_id} : cache'[k] = cache[k]

\* C22 as claimed: when a check that fetched returns, the item's entry holds
\* the fetched verdict stamped with the time of the return, and the entries
\* of the other items are unchanged.
C22_EntryStampedAtReturn ==
    [][FetchedCheckReturns =>
          /\ cache'[app_ids[idx]].timestamp = now'
          /\ cache'[app_ids[idx]].data.available = lastCheck'.verdict
          /\ OtherEntriesKept(app_ids[idx])]_vars

\* C22 amended: when a check that fetched returns, the item's entry holds
\* the fetched verdict stamped with the time the check read when it began,
\* before the fetch, in place of any prior entry, and the entries of the
\* other items are unchanged.
C22_EntryStampedAtCheckStart ==
    [][FetchedCheckReturns =>
          /\ cache'[app_ids[idx]] =
                [timestamp |-> checkNow,
                 data |-> [app_id |-> app_ids[idx],
                           available |-> lastCheck'.verdict,
                           checked_at |-> checkNow]]
          /\ OtherEntriesKept(app_ids[idx])]_vars

\* C22 witness: a check has replaced its item's entry by a verdict fetched
\* while the clock advanced, another item having an entry.
C22_Witness ==
    /\ lastCheck.phase = "returned"
    /\ lastCheck.fetched
    /\ lastCheck.prior # <<>>
    /\ lastCheck.at < now
    /\ cache[lastCheck.app_id].timestamp = lastCheck.at
    /\ cache[lastCheck.app_id].data.available # lastCheck.prior[1].data.available
    /\ \E k \in DOMAIN cache : k # lastCheck.app_id

\* The check that has just ended fetched a page classified as available.
FetchedAvailable ==
    /\ lastCheck.phase \in {"returned", "raised"}
    /\ lastCheck.fetched
    /\ lastCheck.verdict

\* The time of the last dispatch for the checked item that precedes the
\* check's own call of the notifier, <<>> if there is none.
DispatchBeforeCheck ==
    IF NotifyCalledByCheck
    THEN lastCall.prevDispatch
    ELSE Get(lastDispatchAt, lastCheck.app_id)

\* C24: a check that fetched a page classified as available, no dispatch for
\* the item having been made within the cooldown before it, has invoked the
\* dispatcher for that item by the time it ends.
C24_FreshAvailableDispatches ==
    (/\ FetchedAvailable
     /\ \/ DispatchBeforeCheck = <<>>
        \/ now - DispatchBeforeCheck[1] >= cooldown)
        => /\ NotifyCalledByCheck
           /\ lastCall.invoked
           /\ Get(lastDispatchAt, lastCheck.app_id) = <<now>>

\* C24 witness: a check that fetched an available verdict has dispatched
\* again for an item whose previous dispatch is at least the cooldown old.
C24_Witness ==
    /\ FetchedAvailable
    /\ NotifyCalledByCheck
    /\ lastCall.prevDispatch # <<>>
    /\ now - lastCall.prevDispatch[1] >= cooldown
    /\ lastCall.invoked
    /\ lastCheck.phase = "returned"

\* C26: a failed fetch leaves a false entry stamped as any other entry is;
\* while no session is open every entry is such a product of a failed fetch;
\* and no fetch begins for an item whose entry holds a false verdict younger
\* than the TTL: the check returns that entry instead.
C26_FailureVerdictCached ==
    /\ (FetchFailed /\ lastCheck.phase = "returned")
          => /\ cache[lastCheck.app_id].timestamp = lastCheck.at
             /\ cache[lastCheck.app_id].data = lastCheck.data
             /\ ~cache[lastCheck.app_id].data.available
    /\ ~session => \A k \in DOMAIN cache : ~cache[k].data.available
    /\ (lastCheck.phase = "fetching" /\ lastCheck.prior # <<>>
           /\ ~lastCheck.prior[1].data.available)
          => lastCheck.at - lastCheck.prior[1].timestamp >= cache_ttl
    /\ (lastCheck.phase = "returned" /\ lastCheck.prior # <<>>
           /\ ~lastCheck.prior[1].data.available
           /\ lastCheck.at - lastCheck.prior[1].timestamp < cache_ttl)
          => ~lastCheck.fetched /\ lastCheck.data = lastCheck.prior[1].data

\* C26 witness: no session was ever open, so the item's entry comes from a
\* failed fetch, and a later check within the TTL returned it unfetched.
C26_Witness ==
    /\ ~session
    /\ lastCheck.phase = "returned"
    /\ ~lastCheck.fetched
    /\ lastCheck.prior # <<>>
    /\ ~lastCheck.prior[1].data.available
    /\ lastCheck.at > lastCheck.prior[1].timestamp
    /\ lastCheck.at - lastCheck.prior[1].timestamp < cache_ttl

\* The sequence has no element twice.
NoRepeat(q) == \A a, b \in DOMAIN q : q[a] = q[b] => a = b

\* C27: in one run of monitor, notify is called at most once for each link
\* code, the codes it was called for and returned are those in  checked , and
\* no code in  checked  is fetched again.
C27_NotifiedOnceNeverRefetched ==
    \A t \in DOMAIN threads :
        /\ NoRepeat(threads[t].notified)
        /\ ~threads[t].refetched
        /\ threads[t].checked \subseteq
              {threads[t].notified[a] : a \in DOMAIN threads[t].notified}

\* C27 witness: a run has notified every link and has since passed over a
\* notified code, in a later cycle, without fetching it.
C27_Witness ==
    \E t \in DOMAIN threads :
        /\ Len(threads[t].notified) >= 2
        /\ threads[t].skipped
        /\ Alive(threads[t])

\* C28 as claimed: a shutdown handler (window close or Stop Monitoring) runs
\* send_final_status at most once, whether or not monitoring is active and
\* whatever the dialog answers; stated for a configured apprise_url, with
\* which every run of send_final_status reaches Apprise.
C28_FinalStatusAtMostOnce ==
    apprise_url # "" => final_sent <= 1

\* C29 as claimed: whatever the user adds to or removes from the list while
\* a cycle of monitor runs, a cycle that ends has examined every code that
\* stayed in the list for its whole duration, and none of them twice.
C29_PresentCodesExaminedOnce ==
    \A t \in DOMAIN threads : ~threads[t].missed /\ ~threads[t].twice

\* ------------------------------------------------------------ configuration
\* Config.__post_init__ (config.py 40-47) and the construction of the
\* monitor from the Config object. A string is a sequence of characters.

\* Thresholds of Config._validate.
MinIdLength == 4
MinInterval == 60
MinTTL == 1

\* str.strip(): the string without its leading and trailing blanks.
RECURSIVE LStrip(_)
LStrip(str) ==
    IF str = <<>> \/ str[1] # " " THEN str ELSE LStrip(Tail(str))

RECURSIVE RStrip(_)
RStrip(str) ==
    IF str = <<>> \/ str[Len(str)] # " "
    THEN str
    ELSE RStrip(SubSeq(str, 1, Len(str) - 1))

Strip(str) == LStrip(RStrip(str))

\* [f(x) for x in q if x.strip()] with f the identity or strip.
RECURSIVE NonBlank(_, _)
NonBlank(q, stripped) ==
    IF q = <<>> THEN <<>>
    ELSE IF Strip(q[1]) = <<>> THEN NonBlank(Tail(q), stripped)
    ELSE << IF stripped THEN Strip(q[1]) ELSE q[1] >>
            \o NonBlank(Tail(q), stripped)

\* The identifiers tried: empty, blank, three and four characters bare and
\* between blanks, and four characters with a blank inside.
IdStrings ==
    { <<>>, <<" ", " ">>,
      <<"a", "b", "c">>, <<" ", "a", "b", "c", " ">>,
      <<"a", "b", "c", "d">>, <<" ", "a", "b", "c", "d", " ">>,
      <<"a", "b", " ", "d">> }

IdLists(n) == UNION {[1..m -> IdStrings] : m \in 0..n}

\* TESTFLIGHT_APP_IDS: <<>> when unset or empty, otherwise <<parts>>, the
\* parts between its commas.
EnvIds == {<<>>} \cup {<< <<str>> >> : str \in IdStrings \ {<<>>}}

\* config.json: <<>> when there is no file or no "app_ids" in it, otherwise
\* <<ids>>.
FileIds == {<<>>} \cup {<<q>> : q \in IdLists(1)}

ConfigArgs ==
    [app_ids : IdLists(MaxItems),
     env_ids : EnvIds,
     file_ids : FileIds,
     check_interval_seconds : {MinInterval - 1, MinInterval},
     cache_ttl_minutes : {MinTTL - 1, MinTTL},
     has_notification : BOOLEAN]

\* __post_init__, lines 43-46: the app_ids that reach _validate. The
\* environment replaces the constructor's list (line 54); the file is asked
\* only when the list is still empty and the constructor gave none (lines
\* 46 and 111).
LoadedIds(args) ==
    LET explicit == args.app_ids # <<>>
        afterEnv == IF args.env_ids # <<>>
                    THEN NonBlank(args.env_ids[1], TRUE)
                    ELSE args.app_ids
    IN IF afterEnv = <<>> /\ ~explicit /\ args.file_ids # <<>>
       THEN args.file_ids[1]
       ELSE afterEnv

\* Line 143 left out: the identifiers are stored as they came.
CleanUpNone(ids) == ids

\* _validate, line 143: the identifiers are stored stripped.
CleanUp(ids) == NonBlank(ids, TRUE)

\* Config._validate (lines 128-168) on the loaded identifiers: the error it
\* raises ("none" when it returns), the identifiers it stores and the
\* warnings it logs before it raises or returns.
Validate(ids, args) ==
    IF ids = <<>>
    THEN [error |-> "no_ids", app_ids |-> ids, warnings |-> {}]
    ELSE IF \E a \in DOMAIN ids :
               ids[a] = <<>> \/ Len(Strip(ids[a])) < MinIdLength
    THEN [error |-> "invalid_id", app_ids |-> ids, warnings |-> {}]
    ELSE LET w1 == IF args.check_interval_seconds < MinInterval
                   THEN {"interval"} ELSE {}
             w2 == IF ~args.has_notification
                   THEN {"no_notification"} ELSE {}
         IN IF args.cache_ttl_minutes < MinTTL
            THEN [error |-> "ttl", app_ids |-> CleanUp(ids), warnings |-> w1]
            ELSE [error |-> "none", app_ids |-> CleanUp(ids),
                  warnings |-> w1 \cup w2]

ConfigFrame ==
    UNCHANGED << now, cooldown, apprise_obj, session, cache,
                 last_notification, pc, idx, checkNow, results, raised,
                 lastCheck, lastCall, lastFetchAt, lastDispatchAt, content,
                 classified, inflight, schedVars, guiVars, taskVars >>

\* Config(...): __post_init__ loads and validates. When _validate raises,
\* the constructor raises and there is no Config object.
PostInit ==
    /\ config_error = "pending"
    /\ LET ids == LoadedIds(config_args)
           v == Validate(ids, config_args)
       IN /\ config_ids' = ids
          /\ config_error' = v.error
          /\ config_warnings' = v.warnings
          /\ config' =
                IF v.error = "none"
                THEN << [app_ids |-> v.app_ids,
                         check_interval_seconds |->
                            config_args.check_interval_seconds,
                         cache_ttl_minutes |->
                            config_args.cache_ttl_minutes] >>
                ELSE <<>>
    /\ UNCHANGED << config_args, monitor_made, cache_ttl, app_ids >>
    /\ ConfigFrame

\* TestFlightMonitor(config) (monitor.py 21-26): it takes a Config object.
NewMonitor ==
    /\ config # <<>>
    /\ ~monitor_made
    /\ monitor_made' = TRUE
    /\ cache_ttl' = config[1].cache_ttl_minutes
    /\ app_ids' = config[1].app_ids
    /\ UNCHANGED << config_args, config_ids, config, config_error,
                    config_warnings >>
    /\ ConfigFrame

ConfigInit ==
    /\ MonitorIdle
    /\ SchedInit
    /\ GuiInitWith("", 1)
    /\ config_args \in ConfigArgs
    /\ config_ids = <<>>
    /\ config = <<>>
    /\ config_error = "pending"
    /\ config_warnings = {}
    /\ monitor_made = FALSE
    /\ NoTasks

ConfigNext == PostInit \/ NewMonitor

ConfigSpec == ConfigInit /\ [][ConfigNext]_vars

\* The length of the string between its first and its last character that is
\* not a blank: 0 when it has none.
TrimmedLen(str) ==
    LET solid == {a \in DOMAIN str : str[a] # " "}
    IN IF solid = {} THEN 0
       ELSE (CHOOSE a \in solid : \A b \in solid : b <= a)
            - (CHOOSE a \in solid : \A b \in solid : a <= b) + 1

\* The string has no blank at either end.
Trimmed(str) == str = <<>> \/ (str[1] # " " /\ str[Len(str)] # " ")

\* The fetches and notifications made so far: none.
NothingFetchedOrSent ==
    /\ lastFetchAt = EmptyDict
    /\ lastDispatchAt = EmptyDict
    /\ cache = EmptyDict
    /\ last_notification = EmptyDict

\* C21: the construction of the configuration raises exactly when the
\* loaded list is empty, an identifier has fewer than 4 characters once
\* trimmed, or the TTL is below 1 minute, and then there is no Config
\* object, no monitor, no fetch and no notification; an interval below 60
\* seconds is kept, with a warning; the identifiers of a Config object are
\* those loaded, trimmed, each of length >= 4.
C21_ValidationGate ==
    config_error # "pending" =>
        /\ config_error # "none" <=>
              \/ config_ids = <<>>
              \/ \E a \in DOMAIN config_ids :
                    TrimmedLen(config_ids[a]) < MinIdLength
              \/ config_args.cache_ttl_minutes < MinTTL
        /\ config_error # "none" =>
              /\ config = <<>>
              /\ ~monitor_made
              /\ NothingFetchedOrSent
        /\ config_error = "none" =>
              /\ config # <<>>
              /\ config[1].check_interval_seconds
                    = config_args.check_interval_seconds
              /\ "interval" \in config_warnings
                    <=> config_args.check_interval_seconds < MinInterval
              /\ Len(config[1].app_ids) = Len(config_ids)
              /\ \A a \in DOMAIN config[1].app_ids :
                    /\ Trimmed(config[1].app_ids[a])
                    /\ Len(config[1].app_ids[a]) >= MinIdLength
                    /\ Len(config[1].app_ids[a]) = TrimmedLen(config_ids[a])
        /\ monitor_made => app_ids = config[1].app_ids

\* C21 witness: a monitor has been made from a configuration whose
\* identifier came between blanks and whose interval is below 60 seconds.
C21_Witness ==
    /\ monitor_made
    /\ config_error = "none"
    /\ \E a \in DOMAIN config_ids : ~Trimmed(config_ids[a])
    /\ config[1].check_interval_seconds < MinInterval
    /\ "interval" \in config_warnings

\* ------------------------------------------------- concurrent notifications
\* send_notification called from several tasks of one event loop
\* (asyncio.create_task, asyncio.gather): a task runs from one suspension
\* point to the next, and the loop may run any ready task next.

\* The most tasks created.
MaxTasks == 3

\* send_notification with an await between the rate-limit test and line 100.
AwaitsBeforeStampYes == TRUE

\* Whether send_notification has a suspension point between the rate-limit
\* test (line 97) and the write of the record (line 100): the coroutine has
\* no await, async with or async for at all (lines 88-123).
AwaitsBeforeStamp == FALSE

\* asyncio.create_task(send_notification(..., app_id=app_id)).
CreateTask(app_id) ==
    /\ Len(tasks) < MaxTasks
    /\ tasks' = Append(tasks, [app_id |-> app_id, pc |-> "scheduled",
                               at |-> 0, invoked |-> FALSE])
    /\ UNCHANGED << now, last_notification >>

\* The event loop runs task t up to its next suspension point or its end;
\* the dispatch, if reached, ends with outcome d. From its start the call
\* reads the clock (line 95), tests the cooldown (97) and either returns or
\* writes the record (100) and dispatches (106).
TaskRun(t, d) ==
    /\ tasks[t].pc \in {"scheduled", "tested"}
    /\ LET app_id == tasks[t].app_id IN
        IF tasks[t].pc = "scheduled" /\ AwaitsBeforeStamp
        THEN /\ tasks' =
                  [tasks EXCEPT ![t] =
                     IF RateLimited(app_id)
                     THEN [@ EXCEPT !.pc = "done", !.at = now]
                     ELSE [@ EXCEPT !.pc = "tested", !.at = now]]
             /\ last_notification' = last_notification
        ELSE IF tasks[t].pc = "scheduled"
        THEN LET s == SendNotification(app_id, d) IN
             /\ tasks' = [tasks EXCEPT ![t] =
                            [@ EXCEPT !.pc = "done", !.at = now,
                                      !.invoked = s.invoked]]
             /\ last_notification' = s.last_notification
        ELSE /\ tasks' = [tasks EXCEPT ![t] =
                            [@ EXCEPT !.pc = "done", !.invoked = TRUE]]
             /\ last_notification' =
                   Put(last_notification, app_id, tasks[t].at)
    /\ now' = now

NotifyFrame ==
    UNCHANGED << cache_ttl, cooldown, apprise_obj, session, cache, pc, idx,
                 checkNow, results, raised, lastCheck, lastCall, lastFetchAt,
                 lastDispatchAt, content, classified, app_ids, inflight,
                 schedVars, guiVars, cfgVars >>

NotifyInit ==
    /\ now = 0
    /\ cache_ttl = 1
    /\ cooldown \in 1..MaxCooldown
    /\ apprise_obj \in {SetupNotifications(n) : n \in NotificationConfigs}
    /\ session = FALSE
    /\ cache = EmptyDict
    /\ last_notification = EmptyDict
    /\ pc = "idle"
    /\ idx = 0
    /\ checkNow = 0
    /\ results = <<>>
    /\ raised = "none"
    /\ lastCheck = NoCheck
    /\ lastCall = NoCall
    /\ lastFetchAt = EmptyDict
    /\ lastDispatchAt = EmptyDict
    /\ content = <<>>
    /\ classified = <<>>
    /\ app_ids = AppIds
    /\ inflight = <<>>
    /\ SchedInit
    /\ ConfigOver
    /\ GuiInitWith("", 1)
    /\ NoTasks

NotifyNext ==
    \/ Tick
    \/ \E app_id \in Apps : CreateTask(app_id) /\ NotifyFrame
    \/ \E t \in DOMAIN tasks :
          \E d \in DispatchOutcomes : TaskRun(t, d) /\ NotifyFrame

NotifySpec == NotifyInit /\ [][NotifyNext]_vars

\* C23: of the concurrent send_notification calls for one item that read
\* the clock less than a cooldown apart, at most one invokes the dispatcher,
\* however the event loop interleaves them; and no call is ever suspended
\* between its cooldown test and its write of the record.
C23_OneDispatchPerWindow ==
    /\ \A t \in DOMAIN tasks : tasks[t].pc # "tested"
    /\ \A t, u \in DOMAIN tasks :
          (/\ t # u
           /\ tasks[t].app_id = tasks[u].app_id
           /\ tasks[t].invoked /\ tasks[u].invoked
           /\ tasks[t].at <= tasks[u].at)
             => tasks[u].at - tasks[t].at >= cooldown

\* C23 witness: three calls for one item were pending together; the one
\* created last ran first and dispatched, the others, run within the
\* cooldown, did not.
C23_Witness ==
    /\ Len(tasks) = 3
    /\ \A t \in DOMAIN tasks :
          tasks[t].pc = "done" /\ tasks[t].app_id = tasks[1].app_id
    /\ tasks[3].invoked /\ ~tasks[1].invoked /\ ~tasks[2].invoked
    /\ tasks[1].at - tasks[3].at < cooldown
    /\ tasks[2].at - tasks[3].at < cooldown

\* ------------------------------------------------------- cycles for ever
\* The monitor running cycle after cycle with every fetch finding the item
\* available. The clock has no end: once it shows MaxTime a further second
\* moves every stored time one second back instead (not below 0), which
\* keeps every age up to MaxTime exact, and neither the TTL nor the
\* cooldown is above MaxTime.

\* A stored time one second further in the past.
Earlier(t) == IF t > 0 THEN t - 1 ELSE 0

EarlierData(data) == [data EXCEPT !.checked_at = Earlier(@)]

\* datetime.now() (monitor.py 52, notifications.py 95) one second later.
TickOn ==
    /\ lastCheck' = NoCheck
    /\ lastCall' = NoCall
    /\ IF now < MaxTime
       THEN /\ now' = now + 1
            /\ UNCHANGED << cache, last_notification, checkNow, results,
                            lastFetchAt, lastDispatchAt >>
       ELSE /\ now' = now
            /\ cache' = [k \in DOMAIN cache |->
                            [timestamp |-> Earlier(cache[k].timestamp),
                             data |-> EarlierData(cache[k].data)]]
            /\ last_notification' =
                  [k \in DOMAIN last_notification |->
                      Earlier(last_notification[k])]
            /\ checkNow' = Earlier(checkNow)
            /\ results' = [a \in DOMAIN results |-> EarlierData(results[a])]
            /\ lastFetchAt' =
                  [k \in DOMAIN lastFetchAt |-> Earlier(lastFetchAt[k])]
            /\ lastDispatchAt' =
                  [k \in DOMAIN lastDispatchAt |-> Earlier(lastDispatchAt[k])]
    /\ UNCHANGED << cache_ttl, cooldown, apprise_obj, session, pc, idx,
                    raised, content, classified, app_ids, inflight,
                    schedVars, guiVars, cfgVars, taskVars >>

\* The fetches that end with the item classified as available.
AvailableOutcomes == {o \in FetchOutcomes : FetchAvailability(o).available}

LiveInit ==
    /\ now = 0
    /\ cache_ttl \in 1..MaxTTL
    /\ cooldown \in 1..MaxCooldown
    /\ apprise_obj \in {SetupNotifications(n) : n \in NotificationConfigs}
    /\ session = TRUE
    /\ cache = EmptyDict
    /\ last_notification = EmptyDict
    /\ pc = "idle"
    /\ idx = 0
    /\ checkNow = 0
    /\ results = <<>>
    /\ raised = "none"
    /\ lastCheck = NoCheck
    /\ lastCall = NoCall
    /\ lastFetchAt = EmptyDict
    /\ lastDispatchAt = EmptyDict
    /\ content = <<>>
    /\ classified = <<>>
    /\ app_ids = AppIds
    /\ inflight = <<>>
    /\ SchedInit
    /\ ConfigOver
    /\ NoTasks
    /\ GuiInitWith("", 1)

\* The awaited fetch of a check returns, the item being available.
AvailableReturn ==
    \E o \in AvailableOutcomes :
       \E d \in (IF pc = "fetch" THEN CallOutcomes(app_ids[idx])
                                ELSE {"none"}) :
          FetchReturn(o, d)

LiveNext ==
    \/ TickOn
    \/ RunCycle
    \/ CheckCached
    \/ CheckFetch
    \/ AvailableReturn

\* Time passes, the scheduler goes on starting cycles, and a cycle's steps
\* are taken (a request ends: it has a timeout).
LiveSpec ==
    /\ LiveInit
    /\ [][LiveNext]_vars
    /\ WF_vars(TickOn)
    /\ WF_vars(RunCycle)
    /\ WF_vars(CheckCached)
    /\ WF_vars(CheckFetch)
    /\ WF_vars(AvailableReturn)

\* The dispatcher has just been invoked for the item.
Dispatched(app_id) ==
    /\ lastCall.phase = "returned"
    /\ lastCall.app_id = app_id
    /\ lastCall.invoked

\* C25: every fetch classifying the items as available and the scheduler
\* running cycles for ever, the dispatcher is invoked again and again for
\* every item, for every TTL and cooldown and whenever the cycles start,
\* each time at least one cooldown after the previous time.
C25_DispatchedAgainAndAgain ==
    /\ \A app_id \in Apps : []<>Dispatched(app_id)
    /\ [](\A app_id \in Apps :
            (Dispatched(app_id) /\ lastCall.prevDispatch # <<>>)
               => lastCall.at - lastCall.prevDispatch[1] >= cooldown)

\* C25 witness: the second item, dispatched before, is dispatched once more
\* by a later fetch, the longest cooldown or more after its previous
\* dispatch.
C25_Witness ==
    /\ Dispatched(AppIds[2])
    /\ NotifyCalledByCheck
    /\ lastCall.prevDispatch # <<>>
    /\ lastCall.at - lastCall.prevDispatch[1] >= cooldown
    /\ cooldown = MaxCooldown

====
